---- MODULE Spec2Model ----
(***************************************************************************)
(* Swappo Chat service: chat rooms, messages with delivery/read status,    *)
(* and the notification dispatch made by send_message.                     *)
(*                                                                         *)
(* The store (tables chat_rooms and messages) is the pair of sequences     *)
(* rooms and messages; a row's primary key is its index.  Every handler is *)
(* an `async def` whose store calls are synchronous, so a handler runs     *)
(* without interruption up to its first await; the only await of the       *)
(* service is the HTTP POST of the notification inside send_message.       *)
(***************************************************************************)
EXTENDS Integers, Sequences, FiniteSets, TLC

\* ------------------------------------------------------------------ bounds
MaxMessages == 2
MaxClock == 2

\* ------------------------------------------------------------ input sets
Users == {"userA", "userB", "userC"}
TradeOffers == {100, 101}
\* The ChatRoomCreate bodies offered to create_chat_room, as
\* (trade_offer_id, user1_id, user2_id); the schema accepts any two strings
\* as participants, equal ones included.
CreateRequests ==
    {<<100, "userA", "userB">>, <<101, "userA", "userA">>}
Contents == {"hi"}
Procs == {"p1"}
\* trade_offer_id is unique, so there are at most as many rooms as offers;
\* an id is absent from the store until its row is inserted.
RoomIds == 1..Cardinality(TradeOffers)
MessageIds == 1..MaxMessages

\* SQL NULL of a nullable DateTime column; timestamps are >= 1.
NULL == 0

\* MessageStatus enum
MessageStatus == {"sent", "delivered", "read"}
\* MessageUpdate.status is Optional[MessageStatus]
NoStatus == "None"

\* Outcomes of one client.post: a response with a status code, or a
\* transport-level exception (both are subclasses of httpx.RequestError).
PostOutcomes ==
    {[kind |-> "response", status_code |-> c] : c \in {201, 200, 500}}
    \cup {[kind |-> "error", exc |-> e] : e \in {"ConnectError", "ReadTimeout"}}

VARIABLES rooms, messages, clock, inflight, response, repeated

vars == <<rooms, messages, clock, inflight, response, repeated>>

\* ------------------------------------------------------------- responses
NoResponse == [op |-> "none", request |-> <<>>, status_code |-> 0, body |-> [none |-> TRUE]]

Idle == [pc |-> "idle"]

\* The response of the latest handler step.  A response records its request
\* for the operations whose repetition is observed (mark_messages_as_read,
\* deactivate_chat_room); repeated tells that the latest handler step
\* answered the same request, successfully, as the handler step before it.
Respond(r) ==
    /\ response' = r
    /\ repeated' = (/\ r.request # <<>>
                    /\ response.op = r.op
                    /\ response.request = r.request
                    /\ response.status_code < 400
                    /\ r.status_code < 400)

\* raise HTTPException(status_code, detail): the detail without the id that
\* the message text embeds.
HTTPException(op, code, detail) ==
    [op |-> op, request |-> <<>>, status_code |-> code, body |-> [detail |-> detail]]

\* ---------------------------------------------------------------- queries
\* db.query(ChatRoomDB).filter(ChatRoomDB.id == id).first()
RoomExists(id) == id \in DOMAIN rooms

\* A participant check that lets every user through.
IsParticipant_anyone(room, user_id) == TRUE

\* user_id in [chat_room.user1_id, chat_room.user2_id]
IsParticipant(room, user_id) == user_id \in {room.user1_id, room.user2_id}

\* An activity check that lets every room through.
room_is_active_always(room) == TRUE

\* chat_room.is_active, as send_message tests it
room_is_active(room) == room.is_active

Init ==
    /\ rooms = <<>>
    /\ messages = <<>>
    /\ clock = 1
    /\ inflight = [p \in Procs |-> Idle]
    /\ response = NoResponse
    /\ repeated = FALSE

\* func.now() of a statement that stamps a row: the store's clock, which
\* never runs backwards, read at that statement.
Now == {t \in {clock, clock + 1} : t <= MaxClock}

\* create_chat_room without the lookup of an existing room.
create_chat_room_unchecked(trade_offer_id, user1_id, user2_id) ==
    /\ Len(rooms) <= Cardinality(TradeOffers)
    /\ rooms' = Append(rooms, [id |-> Len(rooms) + 1,
                               trade_offer_id |-> trade_offer_id,
                               user1_id |-> user1_id,
                               user2_id |-> user2_id,
                               is_active |-> TRUE,
                               last_message_at |-> NULL])
    /\ Respond([op |-> "create_chat_room", request |-> <<>>,
                status_code |-> 201, body |-> [id |-> Len(rooms) + 1]])
    /\ UNCHANGED <<messages, clock, inflight>>

\* POST /api/v1/chat-rooms
create_chat_room(trade_offer_id, user1_id, user2_id) ==
    LET existing_room == {i \in DOMAIN rooms : rooms[i].trade_offer_id = trade_offer_id}
        db_chat_room == [id |-> Len(rooms) + 1,
                         trade_offer_id |-> trade_offer_id,
                         user1_id |-> user1_id,
                         user2_id |-> user2_id,
                         is_active |-> TRUE,
                         last_message_at |-> NULL]
    IN  IF existing_room # {}
        THEN /\ Respond(HTTPException("create_chat_room", 400, "already exists"))
             /\ UNCHANGED <<rooms, messages, clock, inflight>>
        ELSE /\ rooms' = Append(rooms, db_chat_room)
             /\ Respond([op |-> "create_chat_room", request |-> <<>>,
                         status_code |-> 201, body |-> [id |-> db_chat_room.id]])
             /\ UNCHANGED <<messages, clock, inflight>>

\* deactivate_chat_room that flips the flag instead of clearing it.
deactivate_chat_room_toggle(chat_room_id) ==
    LET req == <<chat_room_id>>
    IN  IF ~RoomExists(chat_room_id)
        THEN /\ Respond(HTTPException("deactivate_chat_room", 404, "not found"))
             /\ UNCHANGED <<rooms, messages, clock, inflight>>
        ELSE /\ rooms' = [rooms EXCEPT ![chat_room_id].is_active = ~@]
             /\ Respond([op |-> "deactivate_chat_room", request |-> req,
                         status_code |-> 200, body |-> [id |-> chat_room_id]])
             /\ UNCHANGED <<messages, clock, inflight>>

\* PATCH /api/v1/chat-rooms/{chat_room_id}/deactivate
deactivate_chat_room(chat_room_id) ==
    LET req == <<chat_room_id>>
    IN  IF ~RoomExists(chat_room_id)
        THEN /\ Respond(HTTPException("deactivate_chat_room", 404, "not found"))
             /\ UNCHANGED <<rooms, messages, clock, inflight>>
        ELSE /\ rooms' = [rooms EXCEPT ![chat_room_id].is_active = FALSE]
             /\ Respond([op |-> "deactivate_chat_room", request |-> req,
                         status_code |-> 200, body |-> [id |-> chat_room_id]])
             /\ UNCHANGED <<messages, clock, inflight>>

\* ------------------------------------------------- notification dispatch
\* Exception classes: httpx's transport errors derive from RequestError;
\* every class here derives from Exception.
IsRequestError(exc) == exc \in {"RequestError", "ConnectError", "ReadTimeout"}
IsHTTPStatusError(exc) == exc = "HTTPStatusError"

Return(v) == [kind |-> "return", value |-> v]
Raise(e) == [kind |-> "raise", exc |-> e]

\* httpx Response.raise_for_status: raises unless the status is 2xx.
raise_for_status(status_code) == ~(200 <= status_code /\ status_code <= 299)

\* A try block that takes every 2xx status for success.
try_block_any_2xx(outcome) ==
    IF outcome.kind = "error" THEN Raise(outcome.exc)
    ELSE IF ~raise_for_status(outcome.status_code) THEN Return(TRUE)
    ELSE Raise("HTTPStatusError")

\* The body of the try block (lines 33-42) on one outcome of client.post.
try_block(outcome) ==
    IF outcome.kind = "error" THEN Raise(outcome.exc)
    ELSE IF outcome.status_code = 201 THEN Return(TRUE)
    ELSE IF raise_for_status(outcome.status_code) THEN Raise("HTTPStatusError")
    ELSE Return(FALSE)

\* The decorated function without its `except Exception` handler.
attempt_unhandled(outcome) == try_block(outcome)

\* One call of the decorated function: the try block under its
\* `except Exception` handler (lines 44-46).
attempt(outcome) ==
    LET r == try_block(outcome)
    IN  IF r.kind = "raise" THEN Return(FALSE) ELSE r

\* retry=retry_if_exception_type((httpx.RequestError, httpx.HTTPStatusError))
retry_if_exception_type(result) ==
    /\ result.kind = "raise"
    /\ IsRequestError(result.exc) \/ IsHTTPStatusError(result.exc)

\* stop=stop_after_attempt(3)
MaxAttempts == 3
stop_after_attempt(attempt_number) == attempt_number >= MaxAttempts

\* wait=wait_exponential(multiplier=1, min=1, max=10): the wait after the
\* attempt with this number, max(min, min(multiplier * 2^(n-1), max)).
WaitMin == 1
WaitMax == 10
Pow2(n) == IF n <= 0 THEN 1 ELSE IF n = 1 THEN 2 ELSE IF n = 2 THEN 4 ELSE 8
wait_exponential(attempt_number) ==
    LET e == Pow2(attempt_number - 1)
        capped == IF e < WaitMax THEN e ELSE WaitMax
    IN  IF capped > WaitMin THEN capped ELSE WaitMin

\* A retry loop that goes on until an attempt returns True.
retry_until_success(result, attempt_number) ==
    IF result = Return(TRUE) THEN [do |-> "end", result |-> result]
    ELSE [do |-> "retry", result |-> result]

\* tenacity's decision after one attempt of the decorated function:
\* "retry" (sleep, call again), or the end of the dispatch with a returned
\* value or a raised exception (RetryError on exhaustion: reraise=False).
retry_decision(result, attempt_number) ==
    IF ~retry_if_exception_type(result) THEN [do |-> "end", result |-> result]
    ELSE IF stop_after_attempt(attempt_number)
         THEN [do |-> "end", result |-> Raise("RetryError")]
         ELSE [do |-> "retry", result |-> result]

\* send_message_notification builds the payload (lines 135-141).
notification_data(message, recipient_id) ==
    [user_id |-> recipient_id, type |-> "new_message",
     related_user_id |-> message.sender_id]

\* --------------------------------------------------------------- messages
\* send_message whose commit carries the insert without the update of the
\* room's timestamp.
send_message_without_timestamp(p, chat_room_id, sender_id, content, now) ==
    /\ inflight[p].pc = "idle"
    /\ RoomExists(chat_room_id)
    /\ rooms[chat_room_id].is_active
    /\ IsParticipant(rooms[chat_room_id], sender_id)
    /\ Len(messages) < MaxMessages
    /\ LET chat_room == rooms[chat_room_id]
           db_message == [id |-> Len(messages) + 1,
                          chat_room_id |-> chat_room_id,
                          sender_id |-> sender_id,
                          content |-> content,
                          status |-> "sent",
                          read_at |-> NULL,
                          created_at |-> now]
           recipient_id == IF sender_id = chat_room.user1_id
                           THEN chat_room.user2_id
                           ELSE chat_room.user1_id
       IN  /\ clock' = now
           /\ messages' = Append(messages, db_message)
           /\ rooms' = rooms
           /\ inflight' = [inflight EXCEPT ![p] =
                  [pc |-> "posting",
                   db_message |-> db_message,
                   notification |-> notification_data(db_message, recipient_id),
                   attempt_number |-> 1,
                   posts |-> <<>>,
                   waits |-> <<>>]]
           /\ response' = NoResponse
           /\ repeated' = FALSE

\* POST /api/v1/messages, up to the first await: the checks, the insert of
\* the message with the update of the room in one commit, the refresh, and
\* the first POST of the dispatch being issued.
send_message(p, chat_room_id, sender_id, content, now) ==
    /\ inflight[p].pc = "idle"
    /\ IF ~RoomExists(chat_room_id)
       THEN /\ Respond(HTTPException("send_message", 404, "not found"))
            /\ UNCHANGED <<rooms, messages, clock, inflight>>
       ELSE IF ~room_is_active(rooms[chat_room_id])
       THEN /\ Respond(HTTPException("send_message", 400, "not active"))
            /\ UNCHANGED <<rooms, messages, clock, inflight>>
       ELSE IF ~IsParticipant(rooms[chat_room_id], sender_id)
       THEN /\ Respond(HTTPException("send_message", 400, "not a participant"))
            /\ UNCHANGED <<rooms, messages, clock, inflight>>
       ELSE LET chat_room == rooms[chat_room_id]
                db_message == [id |-> Len(messages) + 1,
                               chat_room_id |-> chat_room_id,
                               sender_id |-> sender_id,
                               content |-> content,
                               status |-> "sent",
                               read_at |-> NULL,
                               created_at |-> now]
                recipient_id == IF sender_id = chat_room.user1_id
                                THEN chat_room.user2_id
                                ELSE chat_room.user1_id
            IN  /\ Len(messages) < MaxMessages
                /\ clock' = now
                /\ messages' = Append(messages, db_message)
                /\ rooms' = [rooms EXCEPT ![chat_room_id].last_message_at = now]
                /\ inflight' = [inflight EXCEPT ![p] =
                       [pc |-> "posting",
                        db_message |-> db_message,
                        notification |-> notification_data(db_message, recipient_id),
                        attempt_number |-> 1,
                        posts |-> <<>>,
                        waits |-> <<>>]]
                /\ response' = NoResponse
                /\ repeated' = FALSE

\* A dispatch that is abandoned when its POST ends in a transport error:
\* the request stays in flight and never answers.
send_notification_with_retry_abandoned(p, outcome) ==
    LET f == inflight[p]
        result == attempt(outcome)
        posts == Append(f.posts, outcome)
    IN  /\ f.pc = "posting"
        /\ IF outcome.kind = "error"
           THEN /\ inflight' = [inflight EXCEPT ![p] = [pc |-> "cancelled"]]
                /\ response' = NoResponse
                /\ repeated' = FALSE
           ELSE /\ inflight' = [inflight EXCEPT ![p] = Idle]
                /\ Respond([op |-> "send_message", request |-> <<>>,
                            status_code |-> 201, body |-> f.db_message,
                            posts |-> posts, waits |-> f.waits,
                            notification |-> f.notification,
                            delivered |-> result.value])
        /\ UNCHANGED <<rooms, messages, clock>>

\* The POST in flight ends with an outcome; send_notification_with_retry
\* either sleeps and posts again, or ends, and then send_message returns
\* the message it refreshed after its commit (or the exception propagates).
send_notification_with_retry(p, outcome) ==
    LET f == inflight[p]
        result == attempt(outcome)
        d == retry_decision(result, f.attempt_number)
        posts == Append(f.posts, outcome)
    IN  /\ f.pc = "posting"
        /\ IF d.do = "retry"
           THEN /\ inflight' = [inflight EXCEPT ![p].posts = posts,
                                    ![p].attempt_number = f.attempt_number + 1,
                                    ![p].waits = Append(f.waits, wait_exponential(f.attempt_number))]
                /\ response' = NoResponse
                /\ repeated' = FALSE
           ELSE /\ inflight' = [inflight EXCEPT ![p] = Idle]
                /\ IF d.result.kind = "return"
                   THEN Respond([op |-> "send_message", request |-> <<>>,
                                 status_code |-> 201, body |-> f.db_message,
                                 posts |-> posts, waits |-> f.waits,
                                 notification |-> f.notification,
                                 delivered |-> d.result.value])
                   ELSE Respond([op |-> "send_message", request |-> <<>>,
                                 status_code |-> 500, body |-> [detail |-> d.result.exc],
                                 posts |-> posts, waits |-> f.waits,
                                 notification |-> f.notification,
                                 delivered |-> FALSE])
        /\ UNCHANGED <<rooms, messages, clock>>

\* update_message that stamps read_at on every update to read.
update_message_restamping(message_id, status, now) ==
    IF message_id \notin DOMAIN messages
    THEN /\ Respond(HTTPException("update_message", 404, "not found"))
         /\ UNCHANGED <<rooms, messages, clock, inflight>>
    ELSE LET message == messages[message_id]
             updated ==
                 IF status = NoStatus THEN message
                 ELSE [message EXCEPT
                         !.status = status,
                         !.read_at = IF status = "read" THEN now ELSE message.read_at]
         IN  /\ messages' = [messages EXCEPT ![message_id] = updated]
             /\ clock' = IF status = "read" THEN now ELSE clock
             /\ Respond([op |-> "update_message", request |-> <<>>,
                         status_code |-> 200, body |-> [id |-> message_id]])
             /\ UNCHANGED <<rooms, inflight>>

\* PATCH /api/v1/messages/{message_id}
update_message(message_id, status, now) ==
    IF message_id \notin DOMAIN messages
    THEN /\ Respond(HTTPException("update_message", 404, "not found"))
         /\ UNCHANGED <<rooms, messages, clock, inflight>>
    ELSE LET message == messages[message_id]
             updated ==
                 IF status = NoStatus THEN message
                 ELSE [message EXCEPT
                         !.status = status,
                         !.read_at = IF status = "read" /\ message.read_at = NULL
                                     THEN now ELSE message.read_at]
             stamps == status = "read" /\ message.read_at = NULL
         IN  /\ messages' = [messages EXCEPT ![message_id] = updated]
             /\ clock' = IF stamps THEN now ELSE clock
             /\ Respond([op |-> "update_message", request |-> <<>>,
                         status_code |-> 200, body |-> [id |-> message_id]])
             /\ UNCHANGED <<rooms, inflight>>

\* The filter without its status condition.
mark_read_filter_any_status(m, chat_room_id, user_id) ==
    /\ m.chat_room_id = chat_room_id
    /\ m.sender_id # user_id

\* The filter without its room condition.
mark_read_filter_any_room(m, chat_room_id, user_id) ==
    /\ m.sender_id # user_id
    /\ m.status # "read"

\* The filter of the bulk update (lines 611-617).
mark_read_filter(m, chat_room_id, user_id) ==
    /\ m.chat_room_id = chat_room_id
    /\ m.sender_id # user_id
    /\ m.status # "read"

\* PATCH /api/v1/messages/mark-read
mark_messages_as_read(chat_room_id, user_id, now) ==
    LET req == <<chat_room_id, user_id>>
    IN  IF ~RoomExists(chat_room_id)
        THEN /\ Respond(HTTPException("mark_messages_as_read", 404, "not found"))
             /\ UNCHANGED <<rooms, messages, clock, inflight>>
        ELSE IF ~IsParticipant(rooms[chat_room_id], user_id)
        THEN /\ Respond(HTTPException("mark_messages_as_read", 400, "not a participant"))
             /\ UNCHANGED <<rooms, messages, clock, inflight>>
        ELSE LET hit == {i \in DOMAIN messages :
                            mark_read_filter(messages[i], chat_room_id, user_id)}
                 updated_count == Cardinality(hit)
             IN  /\ messages' = [i \in DOMAIN messages |->
                                   IF i \in hit
                                   THEN [messages[i] EXCEPT !.status = "read", !.read_at = now]
                                   ELSE messages[i]]
                 /\ clock' = IF hit # {} THEN now ELSE clock
                 /\ Respond([op |-> "mark_messages_as_read", request |-> req,
                             status_code |-> 200,
                             body |-> [updated_count |-> updated_count]])
                 /\ UNCHANGED <<rooms, inflight>>

\* ------------------------------------------------------------- aggregator
\* The query parameters offered to list_chat_rooms, as
\* (user_id, active_only, skip, limit); limit defaults to 50.
ListRequests ==
    {<<"userA", TRUE, 0, 50>>, <<"userA", FALSE, 0, 50>>,
     <<"userB", FALSE, 0, 50>>, <<"userA", FALSE, 1, 1>>}

\* The count without the filter on the sender.
RECURSIVE unread_count_any_sender(_, _, _)
unread_count_any_sender(i, room_id, user_id) ==
    IF i = 0 THEN 0
    ELSE unread_count_any_sender(i - 1, room_id, user_id)
         + (IF /\ messages[i].chat_room_id = room_id
               /\ messages[i].status # "read"
            THEN 1 ELSE 0)

\* func.count(MessageDB.id) over the rows that pass the three filters of
\* lines 275-281, counted row by row.
RECURSIVE unread_count(_, _, _)
unread_count(i, room_id, user_id) ==
    IF i = 0 THEN 0
    ELSE unread_count(i - 1, room_id, user_id)
         + (IF /\ messages[i].chat_room_id = room_id
               /\ messages[i].sender_id # user_id
               /\ messages[i].status # "read"
            THEN 1 ELSE 0)

\* The place of a timestamp in the store's sort order: the query states no
\* NULLS FIRST or NULLS LAST, so the store decides where NULL goes; it sorts
\* NULL as the earliest timestamp.
sort_key(timestamp) == IF timestamp = NULL THEN 0 ELSE timestamp

\* The selected rooms in ascending order of last_message_at.
RECURSIVE order_by_asc(_)
order_by_asc(ids) ==
    IF ids = {} THEN <<>>
    ELSE LET first == CHOOSE i \in ids : \A j \in ids :
                        \/ sort_key(rooms[i].last_message_at) < sort_key(rooms[j].last_message_at)
                        \/ /\ rooms[i].last_message_at = rooms[j].last_message_at
                           /\ i <= j
         IN  <<first>> \o order_by_asc(ids \ {first})

\* ORDER BY last_message_at DESC over the selected room ids: the room of the
\* latest timestamp first, rows of equal timestamp in id order.
RECURSIVE order_by_desc(_)
order_by_desc(ids) ==
    IF ids = {} THEN <<>>
    ELSE LET first == CHOOSE i \in ids : \A j \in ids :
                        \/ sort_key(rooms[i].last_message_at) > sort_key(rooms[j].last_message_at)
                        \/ /\ rooms[i].last_message_at = rooms[j].last_message_at
                           /\ i <= j
         IN  <<first>> \o order_by_desc(ids \ {first})

\* .offset(skip).limit(limit)
offset_limit(seq, skip, limit) ==
    LET last == IF skip + limit < Len(seq) THEN skip + limit ELSE Len(seq)
    IN  IF skip >= Len(seq) THEN <<>> ELSE SubSeq(seq, skip + 1, last)

\* GET /api/v1/chat-rooms
list_chat_rooms(user_id, active_only, skip, limit) ==
    LET query == {i \in DOMAIN rooms :
                    /\ IsParticipant(rooms[i], user_id)
                    /\ active_only => rooms[i].is_active}
        chat_rooms == offset_limit(order_by_desc(query), skip, limit)
        room_data(id) == [id |-> id,
                          is_active |-> rooms[id].is_active,
                          last_message_at |-> rooms[id].last_message_at,
                          unread_count |-> unread_count(Len(messages), id, user_id)]
    IN  /\ Respond([op |-> "list_chat_rooms", request |-> <<>>, status_code |-> 200,
                    body |-> [user_id |-> user_id,
                              rooms |-> [k \in DOMAIN chat_rooms |-> room_data(chat_rooms[k])]]])
        /\ UNCHANGED <<rooms, messages, clock, inflight>>

\* ------------------------------------------------------------- statistics
\* Optional[str] = Query(None): the parameter left out
NoUser == "None"
\* The user_id parameters offered to get_statistics: left out, empty, a
\* participant of rooms, a user without a room.
StatisticsRequests == {NoUser, "", "userA", "userC"}

\* func.count(column).scalar() over the rows of a table of n rows that pass
\* the filter, counted row by row.
RECURSIVE func_count(_, _)
func_count(n, rows) ==
    IF n = 0 THEN 0
    ELSE func_count(n - 1, rows) + (IF n \in rows THEN 1 ELSE 0)

\* The filter of the user's unread messages without its sender condition.
statistics_unread_filter_any_sender(m, room_ids, user_id) ==
    /\ m.chat_room_id \in room_ids
    /\ m.status # "read"

\* The filter of total_unread_messages of a user (lines 685-691).
statistics_unread_filter(m, room_ids, user_id) ==
    /\ m.chat_room_id \in room_ids
    /\ m.sender_id # user_id
    /\ m.status # "read"

\* GET /api/v1/statistics; `if user_id:` takes the global branch for a
\* parameter that is left out or empty.
get_statistics(user_id) ==
    LET of_user == {i \in DOMAIN rooms :
                      rooms[i].user1_id = user_id \/ rooms[i].user2_id = user_id}
        room_ids == of_user
        user_statistics ==
            [total_rooms |-> func_count(Len(rooms), of_user),
             active_rooms |-> func_count(Len(rooms),
                                  {i \in of_user : rooms[i].is_active}),
             total_messages |->
                 IF room_ids # {}
                 THEN func_count(Len(messages),
                          {i \in DOMAIN messages : messages[i].chat_room_id \in room_ids})
                 ELSE 0,
             total_unread_messages |->
                 IF room_ids # {}
                 THEN func_count(Len(messages),
                          {i \in DOMAIN messages :
                              statistics_unread_filter(messages[i], room_ids, user_id)})
                 ELSE 0]
        global_statistics ==
            [total_rooms |-> func_count(Len(rooms), DOMAIN rooms),
             active_rooms |-> func_count(Len(rooms),
                                  {i \in DOMAIN rooms : rooms[i].is_active}),
             total_messages |-> func_count(Len(messages), DOMAIN messages),
             total_unread_messages |->
                 func_count(Len(messages),
                     {i \in DOMAIN messages : messages[i].status # "read"})]
        ChatStatistics == IF user_id # NoUser /\ user_id # ""
                          THEN user_statistics ELSE global_statistics
    IN  /\ Respond([op |-> "get_statistics", request |-> <<>>, status_code |-> 200,
                    body |-> [user_id |-> user_id, statistics |-> ChatStatistics]])
        /\ UNCHANGED <<rooms, messages, clock, inflight>>

Next ==
    \/ \E c \in CreateRequests : create_chat_room(c[1], c[2], c[3])
    \/ \E r \in RoomIds : deactivate_chat_room(r)
    \/ \E p \in Procs, r \in RoomIds, u \in Users, c \in Contents, now \in Now :
          send_message(p, r, u, c, now)
    \/ \E p \in Procs, o \in PostOutcomes : send_notification_with_retry(p, o)
    \/ \E m \in MessageIds, st \in MessageStatus \cup {NoStatus}, now \in Now :
          update_message(m, st, now)
    \/ \E r \in RoomIds, u \in Users, now \in Now : mark_messages_as_read(r, u, now)
    \/ \E q \in ListRequests : list_chat_rooms(q[1], q[2], q[3], q[4])

Spec == Init /\ [][Next]_vars

\* The handlers that write the store, with get_statistics as the one that
\* reads it.
NextStatistics ==
    \/ \E c \in CreateRequests : create_chat_room(c[1], c[2], c[3])
    \/ \E r \in RoomIds : deactivate_chat_room(r)
    \/ \E p \in Procs, r \in RoomIds, u \in Users, c \in Contents, now \in Now :
          send_message(p, r, u, c, now)
    \/ \E p \in Procs, o \in PostOutcomes : send_notification_with_retry(p, o)
    \/ \E m \in MessageIds, st \in MessageStatus \cup {NoStatus}, now \in Now :
          update_message(m, st, now)
    \/ \E r \in RoomIds, u \in Users, now \in Now : mark_messages_as_read(r, u, now)
    \/ \E u \in StatisticsRequests : get_statistics(u)

SpecStatistics == Init /\ [][NextStatistics]_vars

\* ------------------------------------------------- concurrent requests
\* Several server processes (uvicorn workers, replicas) share the store.
\* Each request runs on its own Session: its queries read the committed
\* rows, its pending rows are written by db.commit(), and a request of one
\* process may run between the query and the commit of a request of another.
Workers == {"w1", "w2"}

InitConcurrent ==
    /\ rooms = <<>>
    /\ messages = <<>>
    /\ clock = 1
    /\ inflight = [w \in Workers |-> Idle]
    /\ response = NoResponse
    /\ repeated = FALSE

\* create_chat_room up to db.add: the lookup of an existing room, and the
\* new row pending in the Session.
create_chat_room_query(w, trade_offer_id, user1_id, user2_id) ==
    LET existing_room == {i \in DOMAIN rooms : rooms[i].trade_offer_id = trade_offer_id}
    IN  /\ inflight[w].pc = "idle"
        /\ IF existing_room # {}
           THEN /\ Respond(HTTPException("create_chat_room", 400, "already exists"))
                /\ UNCHANGED <<rooms, messages, clock, inflight>>
           ELSE /\ inflight' = [inflight EXCEPT ![w] =
                       [pc |-> "adding",
                        db_chat_room |-> [trade_offer_id |-> trade_offer_id,
                                          user1_id |-> user1_id,
                                          user2_id |-> user2_id,
                                          is_active |-> TRUE,
                                          last_message_at |-> NULL]]]
                /\ response' = NoResponse
                /\ repeated' = FALSE
                /\ UNCHANGED <<rooms, messages, clock>>

\* create_chat_room at db.commit(): the INSERT under the unique index on
\* trade_offer_id; a duplicate makes the commit raise IntegrityError,
\* which the handler does not catch, so the request answers 500.
create_chat_room_commit(w) ==
    LET db_chat_room == inflight[w].db_chat_room
        duplicate == \E i \in DOMAIN rooms :
                        rooms[i].trade_offer_id = db_chat_room.trade_offer_id
        id == Len(rooms) + 1
    IN  /\ inflight[w].pc = "adding"
        /\ inflight' = [inflight EXCEPT ![w] = Idle]
        /\ IF duplicate
           THEN /\ Respond([op |-> "create_chat_room", request |-> <<>>,
                            status_code |-> 500, body |-> [detail |-> "IntegrityError"]])
                /\ UNCHANGED <<rooms, messages, clock>>
           ELSE /\ rooms' = Append(rooms,
                       [id |-> id,
                        trade_offer_id |-> db_chat_room.trade_offer_id,
                        user1_id |-> db_chat_room.user1_id,
                        user2_id |-> db_chat_room.user2_id,
                        is_active |-> db_chat_room.is_active,
                        last_message_at |-> db_chat_room.last_message_at])
                /\ Respond([op |-> "create_chat_room", request |-> <<>>,
                            status_code |-> 201, body |-> [id |-> id]])
                /\ UNCHANGED <<messages, clock>>

\* send_message that issues the dispatch before its commit: the POST is in
\* flight while the message is still pending.
send_message_query_dispatch_first(w, chat_room_id, sender_id, content, began) ==
    /\ inflight[w].pc = "idle"
    /\ RoomExists(chat_room_id)
    /\ room_is_active(rooms[chat_room_id])
    /\ IsParticipant(rooms[chat_room_id], sender_id)
    /\ Len(messages) < MaxMessages
    /\ LET chat_room == rooms[chat_room_id]
           db_message == [id |-> Len(messages) + 1,
                          chat_room_id |-> chat_room_id,
                          sender_id |-> sender_id,
                          content |-> content,
                          status |-> "sent",
                          read_at |-> NULL,
                          created_at |-> began]
           recipient_id == IF sender_id = chat_room.user1_id
                           THEN chat_room.user2_id
                           ELSE chat_room.user1_id
       IN  /\ clock' = began
           /\ inflight' = [inflight EXCEPT ![w] =
                  [pc |-> "posting",
                   db_message |-> db_message,
                   notification |-> notification_data(db_message, recipient_id),
                   attempt_number |-> 1,
                   posts |-> <<>>,
                   waits |-> <<>>]]
           /\ response' = NoResponse
           /\ repeated' = FALSE
           /\ UNCHANGED <<rooms, messages>>

\* send_message up to db.commit(): the query of the room, which begins the
\* transaction at the time began, the checks, and the pending message.
send_message_query(w, chat_room_id, sender_id, content, began) ==
    /\ inflight[w].pc = "idle"
    /\ IF ~RoomExists(chat_room_id)
       THEN /\ Respond(HTTPException("send_message", 404, "not found"))
            /\ UNCHANGED <<rooms, messages, clock, inflight>>
       ELSE IF ~room_is_active(rooms[chat_room_id])
       THEN /\ Respond(HTTPException("send_message", 400, "not active"))
            /\ UNCHANGED <<rooms, messages, clock, inflight>>
       ELSE IF ~IsParticipant(rooms[chat_room_id], sender_id)
       THEN /\ Respond(HTTPException("send_message", 400, "not a participant"))
            /\ UNCHANGED <<rooms, messages, clock, inflight>>
       ELSE /\ clock' = began
            /\ inflight' = [inflight EXCEPT ![w] =
                   [pc |-> "pending",
                    chat_room |-> rooms[chat_room_id],
                    sender_id |-> sender_id,
                    content |-> content,
                    began |-> began]]
            /\ response' = NoResponse
            /\ repeated' = FALSE
            /\ UNCHANGED <<rooms, messages>>

\* The values func.now() can take in the statements of a transaction that
\* began at the time began and commits now: the time the transaction began
\* (a store whose now() is the transaction's timestamp) or the time of the
\* statement.
transaction_now(began) == {began} \cup Now

\* send_message from db.commit() to the await: the INSERT of the message
\* and the UPDATE of the room's last_message_at in one commit, both stamped
\* by func.now(), the refresh, and the first POST of the dispatch issued.
send_message_commit(w, now) ==
    LET f == inflight[w]
        db_message == [id |-> Len(messages) + 1,
                       chat_room_id |-> f.chat_room.id,
                       sender_id |-> f.sender_id,
                       content |-> f.content,
                       status |-> "sent",
                       read_at |-> NULL,
                       created_at |-> now]
        recipient_id == IF f.sender_id = f.chat_room.user1_id
                        THEN f.chat_room.user2_id
                        ELSE f.chat_room.user1_id
    IN  /\ f.pc = "pending"
        /\ now \in transaction_now(f.began)
        /\ Len(messages) < MaxMessages
        /\ clock' = IF now > clock THEN now ELSE clock
        /\ messages' = Append(messages, db_message)
        /\ rooms' = [rooms EXCEPT ![f.chat_room.id].last_message_at = now]
        /\ inflight' = [inflight EXCEPT ![w] =
               [pc |-> "posting",
                db_message |-> db_message,
                notification |-> notification_data(db_message, recipient_id),
                attempt_number |-> 1,
                posts |-> <<>>,
                waits |-> <<>>]]
        /\ response' = NoResponse
        /\ repeated' = FALSE

NextConcurrent ==
    \/ \E w \in Workers, c \in CreateRequests : create_chat_room_query(w, c[1], c[2], c[3])
    \/ \E w \in Workers : create_chat_room_commit(w)
    \/ \E w \in Workers, r \in RoomIds, u \in Users, c \in Contents, began \in Now :
          send_message_query(w, r, u, c, began)
    \/ \E w \in Workers, now \in 1..MaxClock : send_message_commit(w, now)
    \/ \E w \in Workers, o \in PostOutcomes : send_notification_with_retry(w, o)
    \/ \E r \in RoomIds : deactivate_chat_room(r)

SpecConcurrent == InitConcurrent /\ [][NextConcurrent]_vars

\* ------------------------------------------------------- dispatch alone
\* The handlers that lead to a dispatch, and the dispatch.  Every POST ends,
\* with a response or with an exception, within the client's timeout of 5
\* seconds (httpx.AsyncClient(timeout=5.0)), and the event loop resumes the
\* coroutine that awaits it: the step that ends a POST in flight is taken.
NextDispatch ==
    \/ \E c \in CreateRequests : create_chat_room(c[1], c[2], c[3])
    \/ \E p \in Procs, r \in RoomIds, u \in Users, c \in Contents, now \in Now :
          send_message(p, r, u, c, now)
    \/ \E p \in Procs, o \in PostOutcomes : send_notification_with_retry(p, o)

SpecDispatch ==
    /\ Init
    /\ [][NextDispatch]_vars
    /\ \A p \in Procs :
          WF_vars(\E o \in PostOutcomes : send_notification_with_retry(p, o))

\* ---------------------------------------------------------------- routing
\* The routes of the app in the order of their declaration, as (method,
\* path segments, endpoint); a segment in braces is a path parameter.
Routes ==
    << [method |-> "GET",   path |-> <<"metrics">>, endpoint |-> "metrics"],
       [method |-> "GET",   path |-> <<>>, endpoint |-> "root"],
       [method |-> "GET",   path |-> <<"health">>, endpoint |-> "health_check"],
       [method |-> "POST",  path |-> <<"api", "v1", "chat-rooms">>,
        endpoint |-> "create_chat_room"],
       [method |-> "GET",   path |-> <<"api", "v1", "chat-rooms">>,
        endpoint |-> "list_chat_rooms"],
       [method |-> "GET",   path |-> <<"api", "v1", "chat-rooms", "{chat_room_id}">>,
        endpoint |-> "get_chat_room"],
       [method |-> "GET",
        path |-> <<"api", "v1", "chat-rooms", "trade-offer", "{trade_offer_id}">>,
        endpoint |-> "get_chat_room_by_trade_offer"],
       [method |-> "PATCH",
        path |-> <<"api", "v1", "chat-rooms", "{chat_room_id}", "deactivate">>,
        endpoint |-> "deactivate_chat_room"],
       [method |-> "POST",  path |-> <<"api", "v1", "messages">>,
        endpoint |-> "send_message"],
       [method |-> "GET",   path |-> <<"api", "v1", "messages">>,
        endpoint |-> "list_messages"],
       [method |-> "GET",   path |-> <<"api", "v1", "messages", "{message_id}">>,
        endpoint |-> "get_message"],
       [method |-> "PATCH", path |-> <<"api", "v1", "messages", "{message_id}">>,
        endpoint |-> "update_message"],
       [method |-> "PATCH", path |-> <<"api", "v1", "messages", "mark-read">>,
        endpoint |-> "mark_messages_as_read"],
       [method |-> "GET",   path |-> <<"api", "v1", "statistics">>,
        endpoint |-> "get_statistics"] >>

\* A path parameter without a convertor matches any one segment ([^/]+).
IsPathParameter(segment) ==
    segment \in {"{chat_room_id}", "{trade_offer_id}", "{message_id}"}

\* The path regex of a route matches a request path.
path_matches(pattern, path) ==
    /\ Len(pattern) = Len(path)
    /\ \A k \in DOMAIN pattern : IsPathParameter(pattern[k]) \/ pattern[k] = path[k]

\* Router: the first route that matches path and method handles the
\* request; failing that, a route that matches the path alone answers 405;
\* failing that, 404.
resolve(method, path) ==
    LET full == {i \in DOMAIN Routes :
                    path_matches(Routes[i].path, path) /\ Routes[i].method = method}
        partial == {i \in DOMAIN Routes : path_matches(Routes[i].path, path)}
    IN  IF full # {}
        THEN Routes[CHOOSE i \in full : \A j \in full : i <= j].endpoint
        ELSE IF partial # {} THEN "method_not_allowed" ELSE "not_found"

\* Validation of a path parameter declared int: the segments that parse.
int_parsing(segment) ==
    CASE segment = "1" -> [valid |-> TRUE, value |-> 1]
      [] segment = "2" -> [valid |-> TRUE, value |-> 2]
      [] OTHER -> [valid |-> FALSE, value |-> 0]

\* The requests of a client, as (method, path).
ClientRequests ==
    { <<"POST",  <<"api", "v1", "chat-rooms">>>>,
      <<"POST",  <<"api", "v1", "messages">>>>,
      <<"PATCH", <<"api", "v1", "messages", "1">>>>,
      <<"PATCH", <<"api", "v1", "messages", "mark-read">>>>,
      <<"PATCH", <<"api", "v1", "chat-rooms", "1", "deactivate">>>> }

\* RequestValidationError: 422 before the endpoint's body runs.
RequestValidationError(endpoint) ==
    [op |-> endpoint, request |-> <<>>, status_code |-> 422,
     body |-> [detail |-> "int_parsing"]]

\* One request through the router: the endpoint that resolve names
\* validates its parameters and runs.  create, chat_room_id, user_id and
\* now are the body and query parameters the request carries; an
\* update_message carries the status read.
http_request(method, path, create, chat_room_id, user_id, now) ==
    LET endpoint == resolve(method, path)
    IN  IF endpoint = "create_chat_room"
        THEN create_chat_room(create[1], create[2], create[3])
        ELSE IF endpoint = "send_message"
        THEN \E p \in Procs, c \in Contents :
                send_message(p, chat_room_id, user_id, c, now)
        ELSE IF endpoint = "update_message"
        THEN IF int_parsing(path[4]).valid
             THEN update_message(int_parsing(path[4]).value, "read", now)
             ELSE /\ Respond(RequestValidationError(endpoint))
                  /\ UNCHANGED <<rooms, messages, clock, inflight>>
        ELSE IF endpoint = "mark_messages_as_read"
        THEN mark_messages_as_read(chat_room_id, user_id, now)
        ELSE IF endpoint = "deactivate_chat_room"
        THEN IF int_parsing(path[4]).valid
             THEN deactivate_chat_room(int_parsing(path[4]).value)
             ELSE /\ Respond(RequestValidationError(endpoint))
                  /\ UNCHANGED <<rooms, messages, clock, inflight>>
        ELSE /\ Respond([op |-> endpoint, request |-> <<>>, status_code |-> 404,
                         body |-> [detail |-> "not found"]])
             /\ UNCHANGED <<rooms, messages, clock, inflight>>

NextRouting ==
    \/ \E req \in ClientRequests, c \in CreateRequests, r \in RoomIds,
          u \in Users, now \in Now :
          http_request(req[1], req[2], c, r, u, now)
    \/ \E p \in Procs, o \in PostOutcomes : send_notification_with_retry(p, o)

SpecRouting == Init /\ [][NextRouting]_vars

\* ------------------------------------------------------------------ claims
Is201(outcome) == outcome.kind = "response" /\ outcome.status_code = 201

\* The send_message that has ended its dispatch and answered.
SendAnswered == response.op = "send_message" /\ response.status_code \in {201, 500}

\* The row a send_message committed is in the store as it was inserted
\* (status and read_at may have been updated since), and its room carries a
\* last-message timestamp no older than it.
Persisted(m) ==
    /\ m.id \in DOMAIN messages
    /\ messages[m.id].chat_room_id = m.chat_room_id
    /\ messages[m.id].sender_id = m.sender_id
    /\ messages[m.id].content = m.content
    /\ messages[m.id].created_at = m.created_at
    /\ rooms[m.chat_room_id].last_message_at # NULL
    /\ rooms[m.chat_room_id].last_message_at >= m.created_at

\* C1: whatever the notification endpoint answers, a send_message that
\* committed its message answers 201 with that message, status sent, and
\* never an error; during and after the dispatch the message stays in the
\* store and its room keeps a last-message timestamp.
C1_SendSurvivesNotification ==
    /\ response.op = "send_message" => response.status_code \in {201, 400, 404}
    /\ SendAnswered =>
          /\ response.body.status = "sent"
          /\ response.body.read_at = NULL
          /\ Persisted(response.body)
    /\ \A p \in Procs : inflight[p].pc = "posting" => Persisted(inflight[p].db_message)

\* C1 witness: a send_message answered 201 after a dispatch whose POST failed.
C1_Witness ==
    /\ SendAnswered
    /\ response.status_code = 201
    /\ ~response.delivered
    /\ \E k \in DOMAIN response.posts : ~Is201(response.posts[k])

\* C2: a dispatch whose endpoint failed on every attempt has issued exactly
\* 3 POSTs (every failed attempt before the third is followed by another).
C2_FailedDispatchPostsThrice ==
    (SendAnswered /\ \A k \in DOMAIN response.posts : ~Is201(response.posts[k]))
        => Len(response.posts) = MaxAttempts

\* C3: a dispatch issues at most 3 POSTs and none after a POST answered 201.
C3_AtMostThreePosts ==
    /\ \A p \in Procs : inflight[p].pc = "posting" =>
          /\ inflight[p].attempt_number <= MaxAttempts
          /\ Len(inflight[p].posts) = inflight[p].attempt_number - 1
          /\ \A k \in DOMAIN inflight[p].posts : ~Is201(inflight[p].posts[k])
    /\ SendAnswered =>
          /\ Len(response.posts) <= MaxAttempts
          /\ \A k \in DOMAIN response.posts :
                Is201(response.posts[k]) => k = Len(response.posts)

\* C3 witness: a dispatch that ended on a POST answered 201.
C3_Witness ==
    /\ SendAnswered
    /\ response.delivered
    /\ Is201(response.posts[Len(response.posts)])

\* C4: every message has status read exactly when its read_at is set.
C4_ReadIffReadAt ==
    \A i \in DOMAIN messages :
        (messages[i].status = "read") <=> (messages[i].read_at # NULL)

StoreUnchanged == UNCHANGED <<rooms, messages, clock, inflight>>

Failed(op, code, detail) ==
    /\ response'.op = op
    /\ response'.status_code = code
    /\ response'.body = [detail |-> detail]

Outsider(r, u) == u \notin {rooms[r].user1_id, rooms[r].user2_id}

SenderIsParticipant ==
    \A i \in DOMAIN messages :
        /\ messages[i].chat_room_id \in DOMAIN rooms
        /\ messages[i].sender_id \in {rooms[messages[i].chat_room_id].user1_id,
                                      rooms[messages[i].chat_room_id].user2_id}

\* C5 as stated: every message's sender is a participant of its room, and
\* a send_message by a non-participant of the room answers "not a
\* participant" and changes nothing, whatever the state of the room.
C5_OutsiderForbidden ==
    /\ []SenderIsParticipant
    /\ [][\A p \in Procs, r \in RoomIds, u \in Users, c \in Contents, now \in Now :
            (response'.op = "send_message" /\ RoomExists(r) /\ Outsider(r, u)
                /\ send_message(p, r, u, c, now))
                => (Failed("send_message", 400, "not a participant") /\ StoreUnchanged)]_vars

\* C5 amended: every message's sender is a participant of its room, and a
\* send_message to an active room by a non-participant answers "not a
\* participant" and changes nothing: no row, no timestamp, no dispatch.
C5_OutsiderForbiddenInActiveRoom ==
    /\ []SenderIsParticipant
    /\ [][\A p \in Procs, r \in RoomIds, u \in Users, c \in Contents, now \in Now :
            (response'.op = "send_message" /\ RoomExists(r) /\ rooms[r].is_active
                /\ Outsider(r, u) /\ send_message(p, r, u, c, now))
                => (Failed("send_message", 400, "not a participant") /\ StoreUnchanged)]_vars

\* C5 witness: a send_message was refused as "not a participant" in a store
\* that holds a message.
C5_Witness ==
    /\ response.op = "send_message"
    /\ response.status_code = 400
    /\ response.body = [detail |-> "not a participant"]
    /\ messages # <<>>

TradeOfferUnique ==
    \A i, j \in DOMAIN rooms : rooms[i].trade_offer_id = rooms[j].trade_offer_id => i = j

\* C6: a create_chat_room for a trade offer that has a room answers
\* "already exists", adds no room and leaves every room as it was; no two
\* rooms share a trade offer.
C6_DuplicateRoomConflict ==
    /\ []TradeOfferUnique
    /\ [][\A c \in CreateRequests :
            (response'.op = "create_chat_room"
                /\ (\E i \in DOMAIN rooms : rooms[i].trade_offer_id = c[1])
                /\ create_chat_room(c[1], c[2], c[3]))
                => (Failed("create_chat_room", 400, "already exists") /\ StoreUnchanged)]_vars

\* C6 witness: a create_chat_room was refused while a room had received a
\* message and had been deactivated.
C6_Witness ==
    /\ response.op = "create_chat_room"
    /\ response.status_code = 400
    /\ \E i \in DOMAIN rooms : ~rooms[i].is_active /\ rooms[i].last_message_at # NULL

\* C7: a mark_messages_as_read that repeats the request of the handler step
\* right before it reports updated_count 0 and changes no message.
C7_MarkReadIdempotent ==
    [][(repeated' /\ response'.op = "mark_messages_as_read")
          => (response'.body.updated_count = 0 /\ messages' = messages)]_vars

\* C7 witness: the second of two mark_messages_as_read in a row, in a room
\* that holds a message of another sender, read.
C7_Witness ==
    /\ repeated
    /\ response.op = "mark_messages_as_read"
    /\ \E i \in DOMAIN messages :
          /\ messages[i].chat_room_id = response.request[1]
          /\ messages[i].sender_id # response.request[2]
          /\ messages[i].status = "read"

\* The reference count of unread messages of a room for a viewer.
Unread(msgs, room_id, viewer) ==
    Cardinality({i \in DOMAIN msgs :
                    /\ msgs[i].chat_room_id = room_id
                    /\ msgs[i].sender_id # viewer
                    /\ msgs[i].status # "read"})

ListedUnreadIsReference ==
    response.op = "list_chat_rooms" =>
        \A k \in DOMAIN response.body.rooms :
            response.body.rooms[k].unread_count
                = Unread(messages, response.body.rooms[k].id, response.body.user_id)

NoneUnreadAfterMark ==
    (response.op = "mark_messages_as_read" /\ response.status_code = 200)
        => Unread(messages, response.request[1], response.request[2]) = 0

\* C8: list_chat_rooms reports for each room the number of its messages of
\* another sender than the viewer that are not read; right after a
\* successful mark_messages_as_read that number is 0 for its room and user;
\* a message sent raises it by 1 for every viewer but the sender, by 0 for
\* the sender.
C8_UnreadCount ==
    /\ []ListedUnreadIsReference
    /\ []NoneUnreadAfterMark
    /\ [][\A p \in Procs, r \in RoomIds, u \in Users, c \in Contents, now \in Now :
            (inflight[p].pc = "idle" /\ inflight'[p].pc = "posting"
                /\ send_message(p, r, u, c, now))
                => \A v \in Users :
                      Unread(messages', r, v)
                          = Unread(messages, r, v) + (IF v # u THEN 1 ELSE 0)]_vars

\* C8 witness: a listing that reports one unread message in a room of two.
C8_Witness ==
    /\ response.op = "list_chat_rooms"
    /\ \E k \in DOMAIN response.body.rooms :
          /\ response.body.rooms[k].unread_count = 1
          /\ Cardinality({i \in DOMAIN messages :
                messages[i].chat_room_id = response.body.rooms[k].id}) = 2

\* C9: a mark_messages_as_read by a participant sets status read and
\* read_at now on exactly the messages of the room of another sender that
\* were not read, reports their number and leaves every other message as it
\* was; by a non-participant it answers "not a participant" and changes
\* nothing.
C9_MarkReadFrame ==
    [][\A r \in RoomIds, u \in Users, now \in Now :
          (response'.op = "mark_messages_as_read" /\ RoomExists(r)
              /\ mark_messages_as_read(r, u, now)) =>
             IF Outsider(r, u)
             THEN Failed("mark_messages_as_read", 400, "not a participant") /\ StoreUnchanged
             ELSE /\ response'.status_code = 200
                  /\ response'.body.updated_count = Unread(messages, r, u)
                  /\ DOMAIN messages' = DOMAIN messages
                  /\ \A i \in DOMAIN messages :
                        IF /\ messages[i].chat_room_id = r
                           /\ messages[i].sender_id # u
                           /\ messages[i].status # "read"
                        THEN messages'[i] = [messages[i] EXCEPT !.status = "read",
                                                                !.read_at = now]
                        ELSE messages'[i] = messages[i]
                  /\ rooms' = rooms]_vars

\* C9 witness: a mark_messages_as_read updated one message of two and left
\* one that is not read.
C9_Witness ==
    /\ response.op = "mark_messages_as_read"
    /\ response.status_code = 200
    /\ response.body.updated_count = 1
    /\ Len(messages) = 2
    /\ \E i \in DOMAIN messages : messages[i].status # "read"

\* C10: a send_message to a deactivated room answers "not active" and
\* changes nothing: no row, no timestamp, no dispatch.
C10_InactiveRoomRefused ==
    [][\A p \in Procs, r \in RoomIds, u \in Users, c \in Contents, now \in Now :
          (response'.op = "send_message" /\ RoomExists(r) /\ ~rooms[r].is_active
              /\ send_message(p, r, u, c, now))
              => (Failed("send_message", 400, "not active") /\ StoreUnchanged)]_vars

\* C10 witness: a send_message was refused as "not active" by a room that
\* holds a message.
C10_Witness ==
    /\ response.op = "send_message"
    /\ response.status_code = 400
    /\ response.body = [detail |-> "not active"]
    /\ \E i \in DOMAIN rooms : ~rooms[i].is_active /\ rooms[i].last_message_at # NULL

RoomMessages(msgs, room_id) == {i \in DOMAIN msgs : msgs[i].chat_room_id = room_id}

TimestampIffMessage ==
    \A r \in DOMAIN rooms :
        (rooms[r].last_message_at # NULL) <=> (RoomMessages(messages, r) # {})

\* C11: a room's last_message_at is set exactly when the room holds a
\* message; a step changes a room's last_message_at only together with the
\* insert of a message of that room, and inserts a message only together
\* with the update of its room's last_message_at; a room is created with
\* last_message_at null.
C11_TimestampIffMessage ==
    /\ []TimestampIffMessage
    /\ [][/\ \A r \in DOMAIN rooms :
              rooms'[r].last_message_at # rooms[r].last_message_at
                  => /\ Len(messages') = Len(messages) + 1
                     /\ messages'[Len(messages')].chat_room_id = r
                     /\ messages'[Len(messages')].created_at = rooms'[r].last_message_at
          /\ Len(messages') > Len(messages)
                  => rooms'[messages'[Len(messages')].chat_room_id].last_message_at
                         = messages'[Len(messages')].created_at
          /\ \A r \in DOMAIN rooms' \ DOMAIN rooms : rooms'[r].last_message_at = NULL]_vars

\* C11 witness: a room that holds a message and carries a timestamp next to
\* a room without either, after a handler that is not send_message answered.
C11_Witness ==
    /\ Len(rooms) = 2
    /\ \E r \in DOMAIN rooms :
          rooms[r].last_message_at # NULL /\ RoomMessages(messages, r) # {}
    /\ \E r \in DOMAIN rooms :
          rooms[r].last_message_at = NULL /\ RoomMessages(messages, r) = {}
    /\ response.op \in {"deactivate_chat_room", "update_message", "mark_messages_as_read"}
    /\ response.status_code = 200

\* C12: a step never changes a read_at that is set, and sets a read_at only
\* on a message whose status it moves to read.
C12_ReadAtSetOnce ==
    [][\A i \in DOMAIN messages :
          /\ messages[i].read_at # NULL => messages'[i].read_at = messages[i].read_at
          /\ (messages[i].read_at = NULL /\ messages'[i].read_at # NULL)
                => (messages[i].status # "read" /\ messages'[i].status = "read")]_vars

\* The scope of a statistics request: the rooms of the user, or every room
\* when no user id is given (an empty string names no user).
StatisticsScope(user_id) ==
    IF user_id \in {NoUser, ""} THEN DOMAIN rooms
    ELSE {r \in DOMAIN rooms : user_id \in {rooms[r].user1_id, rooms[r].user2_id}}

\* C13: get_statistics answers 200 with the four reference counts over its
\* scope: the rooms, the active rooms, the messages of those rooms, and the
\* messages of those rooms that are not read (and, for a user, not sent by
\* that user); each is a natural number, and 0 when the scope is empty.
C13_StatisticsAreReferenceCounts ==
    response.op = "get_statistics" =>
        LET u == response.body.user_id
            st == response.body.statistics
            scope == StatisticsScope(u)
            scoped_messages == {i \in DOMAIN messages : messages[i].chat_room_id \in scope}
        IN  /\ response.status_code = 200
            /\ st.total_rooms = Cardinality(scope)
            /\ st.active_rooms = Cardinality({r \in scope : rooms[r].is_active})
            /\ st.total_messages = Cardinality(scoped_messages)
            /\ st.total_unread_messages =
                  Cardinality({i \in scoped_messages :
                      /\ messages[i].status # "read"
                      /\ u \in {NoUser, ""} \/ messages[i].sender_id # u})
            /\ \A f \in DOMAIN st : st[f] \in Nat
            /\ scope = {} => \A f \in DOMAIN st : st[f] = 0

\* C13 witness: the statistics of a participant whose rooms hold two
\* messages, one of them unread for that user.
C13_Witness ==
    /\ response.op = "get_statistics"
    /\ response.body.user_id = "userA"
    /\ response.body.statistics.total_messages = 2
    /\ response.body.statistics.total_unread_messages = 1
    /\ response.body.statistics.total_rooms = 2
    /\ response.body.statistics.active_rooms = 1

\* C14: a deactivate_chat_room of an existing room answers 200 and leaves
\* the room inactive, whether it was active or not, with its participants,
\* trade offer and last_message_at as they were, and every other room and
\* every message as it was; of an absent room it answers "not found" and
\* changes nothing.
C14_DeactivateFrame ==
    [][\A r \in RoomIds :
          (response'.op = "deactivate_chat_room" /\ deactivate_chat_room(r)) =>
             IF RoomExists(r)
             THEN /\ response'.status_code = 200
                  /\ DOMAIN rooms' = DOMAIN rooms
                  /\ ~rooms'[r].is_active
                  /\ rooms'[r].user1_id = rooms[r].user1_id
                  /\ rooms'[r].user2_id = rooms[r].user2_id
                  /\ rooms'[r].trade_offer_id = rooms[r].trade_offer_id
                  /\ rooms'[r].last_message_at = rooms[r].last_message_at
                  /\ \A q \in DOMAIN rooms : q # r => rooms'[q] = rooms[q]
                  /\ UNCHANGED <<messages, clock, inflight>>
             ELSE Failed("deactivate_chat_room", 404, "not found") /\ StoreUnchanged]_vars

\* C14 witness: the second of two deactivate_chat_room in a row succeeded on
\* a room that holds a message.
C14_Witness ==
    /\ repeated
    /\ response.op = "deactivate_chat_room"
    /\ response.status_code = 200
    /\ ~rooms[response.request[1]].is_active
    /\ rooms[response.request[1]].last_message_at # NULL

\* C15: the two participants of every room differ, and no step changes the
\* participants or the trade offer of a room.
C15_ParticipantsDistinctAndFixed ==
    /\ [](\A r \in DOMAIN rooms : rooms[r].user1_id # rooms[r].user2_id)
    /\ [][\A r \in DOMAIN rooms :
            /\ rooms'[r].user1_id = rooms[r].user1_id
            /\ rooms'[r].user2_id = rooms[r].user2_id
            /\ rooms'[r].trade_offer_id = rooms[r].trade_offer_id]_vars

RecipientIsTheOther(message, notification) ==
    /\ notification.related_user_id = message.sender_id
    /\ notification.user_id \in {rooms[message.chat_room_id].user1_id,
                                  rooms[message.chat_room_id].user2_id}
    /\ notification.user_id # notification.related_user_id

\* C16: the notification of every dispatch, in flight or ended, names as
\* recipient a participant of the message's room other than the sender.
C16_RecipientIsTheOtherParticipant ==
    /\ \A p \in Procs : inflight[p].pc = "posting" =>
          RecipientIsTheOther(inflight[p].db_message, inflight[p].notification)
    /\ SendAnswered => RecipientIsTheOther(response.body, response.notification)

\* C18: an update_message of an existing message with a status writes that
\* status whatever the status was, sets read_at to now if the status is
\* read and read_at was null, leaves read_at as it was otherwise, and
\* changes no other field of the message, no other message and no room.
C18_UpdateWritesAnyStatus ==
    [][\A m \in MessageIds, st \in MessageStatus, now \in Now :
          (response'.op = "update_message" /\ m \in DOMAIN messages
              /\ update_message(m, st, now)) =>
             /\ response'.status_code = 200
             /\ messages'[m].status = st
             /\ messages'[m].read_at =
                   IF st = "read" /\ messages[m].read_at = NULL
                   THEN now ELSE messages[m].read_at
             /\ messages'[m].chat_room_id = messages[m].chat_room_id
             /\ messages'[m].sender_id = messages[m].sender_id
             /\ messages'[m].content = messages[m].content
             /\ messages'[m].created_at = messages[m].created_at
             /\ DOMAIN messages' = DOMAIN messages
             /\ \A i \in DOMAIN messages : i # m => messages'[i] = messages[i]
             /\ rooms' = rooms]_vars

\* C18 witness: an update_message answered for a message that was read and
\* is sent again, its read_at kept.
C18_Witness ==
    /\ response.op = "update_message"
    /\ response.status_code = 200
    /\ messages[response.body.id].status = "sent"
    /\ messages[response.body.id].read_at # NULL

C19_ConcurrentCreateConflict ==
    /\ []TradeOfferUnique
    /\ [][\A w \in Workers :
            (inflight[w].pc = "adding" /\ inflight'[w].pc = "idle"
                /\ create_chat_room_commit(w)) =>
               IF \E i \in DOMAIN rooms :
                      rooms[i].trade_offer_id = inflight[w].db_chat_room.trade_offer_id
               THEN Failed("create_chat_room", 400, "already exists") /\ rooms' = rooms
               ELSE response'.status_code = 201 /\ Len(rooms') = Len(rooms) + 1]_vars

\* C20: the last_message_at of every room that holds messages is the
\* created_at of its newest message, whatever the order in which the
\* send_message requests of several processes began and committed.
C20_TimestampIsNewestMessage ==
    \A r \in DOMAIN rooms :
        RoomMessages(messages, r) # {} =>
            /\ \E i \in RoomMessages(messages, r) :
                  rooms[r].last_message_at = messages[i].created_at
            /\ \A i \in RoomMessages(messages, r) :
                  rooms[r].last_message_at >= messages[i].created_at

DispatchStarts(w) == inflight[w].pc # "posting" /\ inflight'[w].pc = "posting"

\* C21: a dispatch starts only in the step that commits its message, for
\* the message as committed; the step that commits a message starts the
\* dispatch of exactly one request; while a dispatch is in flight its
\* message is in the store; and a send_message that answers 404 or 400
\* leaves the store and every request in flight as they were.
C21_DispatchFollowsCommit ==
    /\ [](\A w \in DOMAIN inflight : inflight[w].pc = "posting" =>
             /\ inflight[w].db_message.id \in DOMAIN messages
             /\ messages[inflight[w].db_message.id].created_at
                   = inflight[w].db_message.created_at
             /\ messages[inflight[w].db_message.id].sender_id
                   = inflight[w].db_message.sender_id
             /\ \A v \in DOMAIN inflight :
                   (v # w /\ inflight[v].pc = "posting")
                       => inflight[v].db_message.id # inflight[w].db_message.id)
    /\ [][/\ \A w \in DOMAIN inflight : DispatchStarts(w) =>
                /\ Len(messages') = Len(messages) + 1
                /\ inflight'[w].db_message = messages'[Len(messages')]
          /\ Len(messages') > Len(messages) =>
                Cardinality({w \in DOMAIN inflight : DispatchStarts(w)}) = 1
          /\ (response'.op = "send_message" /\ response'.status_code \in {400, 404}) =>
                UNCHANGED <<rooms, messages, inflight>>]_vars

\* C21 witness: a send_message was refused while the dispatch of another
\* request, for a committed message, is in flight.
C21_Witness ==
    /\ response.op = "send_message"
    /\ response.status_code = 400
    /\ \E w \in DOMAIN inflight :
          /\ inflight[w].pc = "posting"
          /\ inflight[w].db_message.id \in DOMAIN messages

\* C25: a step that commits a message commits it into a room that is
\* active in the store at that step, so every message of an inactive room
\* was committed before the room was deactivated.
C25_NoMessageAfterDeactivation ==
    [][Len(messages') > Len(messages) =>
          rooms[messages'[Len(messages')].chat_room_id].is_active]_vars

RECURSIVE TwoToThe(_)
TwoToThe(n) == IF n <= 0 THEN 1 ELSE 2 * TwoToThe(n - 1)

\* min(2^(k-1), 10): 1 after the first attempt, 2 after the second.
ExponentialWait(k) == IF TwoToThe(k - 1) < 10 THEN TwoToThe(k - 1) ELSE 10

\* C22: in a dispatch that has ended, every failed attempt k before the
\* third was followed by a wait of min(2^(k-1), 10) and another attempt:
\* 1 after the first attempt, 2 after the second.
C22_BackoffBetweenAttempts ==
    SendAnswered =>
        \A k \in DOMAIN response.posts :
            (~Is201(response.posts[k]) /\ k < MaxAttempts) =>
                /\ k \in DOMAIN response.waits
                /\ response.waits[k] = ExponentialWait(k)
                /\ k + 1 \in DOMAIN response.posts

\* C23: a dispatch that has ended returned True exactly if one of its POSTs
\* was answered 201, and returned False otherwise, whether the POST met
\* another status, a connection failure or a timeout; it raised nothing, so
\* send_message answered 201.
C23_ReturnsTrueIffDelivered ==
    SendAnswered =>
        /\ response.delivered \in BOOLEAN
        /\ response.delivered <=> \E k \in DOMAIN response.posts : Is201(response.posts[k])
        /\ response.status_code = 201

\* C23 witness: a dispatch whose POST timed out returned False.
C23_Witness ==
    /\ SendAnswered
    /\ ~response.delivered
    /\ response.posts # <<>>
    /\ \A k \in DOMAIN response.posts :
          response.posts[k] = [kind |-> "error", exc |-> "ReadTimeout"]

\* C24: every dispatch that is in flight ends: its request leaves the
\* dispatch and send_message answers its caller; no request in flight is in
\* a position other than the dispatch, and a dispatch makes no more than 3
\* attempts.
C24_DispatchEnds ==
    /\ \A p \in Procs :
          (inflight[p].pc = "posting") ~> (inflight[p].pc = "idle" /\ SendAnswered)
    /\ [](\A p \in Procs :
             /\ inflight[p].pc \in {"idle", "posting"}
             /\ inflight[p].pc = "posting" => inflight[p].attempt_number <= MaxAttempts)

\* C24 witness: the dispatch of a second message has ended on a connection
\* failure and send_message has answered.
C24_Witness ==
    /\ SendAnswered
    /\ response.body.id = 2
    /\ response.posts = <<[kind |-> "error", exc |-> "ConnectError"]>>
    /\ \A p \in Procs : inflight[p].pc = "idle"

\* The endpoint a request is meant for: the one declared with the request's
\* method and very path, or else the one whose pattern the path matches.
OwnEndpoint(method, path) ==
    IF \E i \in DOMAIN Routes : Routes[i].method = method /\ Routes[i].path = path
    THEN Routes[CHOOSE i \in DOMAIN Routes :
                    Routes[i].method = method /\ Routes[i].path = path].endpoint
    ELSE resolve(method, path)

\* C26: every request is answered by the endpoint it is meant for: a
\* PATCH /api/v1/messages/mark-read by mark_messages_as_read.
C26_EveryRouteReachable ==
    [][\A req \in ClientRequests, c \in CreateRequests, r \in RoomIds,
          u \in Users, now \in Now :
          (response'.op \notin {"none", OwnEndpoint(req[1], req[2])}
              /\ http_request(req[1], req[2], c, r, u, now)) => FALSE]_vars
====
